---- MODULE Spec2Model ----
(***************************************************************************)
(* LRUCache of shadow-library/common: a fixed-capacity cache whose recency *)
(* list is a doubly linked list threaded through typed index arrays, with  *)
(* a stack of reclaimed slots and optional lazy per-entry expiry.          *)
(* Every public method is synchronous, so each one is a single action.     *)
(***************************************************************************)
EXTENDS Integers, Sequences, FiniteSets, TLC

\* ---------------------------------------------------------------- bounds
MaxCap == 3          \* capacities 1..MaxCap are constructed
NumKeys == 4         \* distinct string keys "key1".."keyN", as 1..N
NumVals == 2         \* successive values written under one key
RichKeys == 1        \* keys 1..RichKeys are written with NumVals values, the others with one
MaxTTL == 1          \* options.ttl ranges over 1..MaxTTL when expiry is enabled
MaxCapTTL == 2       \* capacities 1..MaxCapTTL are constructed with expiry enabled
MaxTime == 3         \* performance.now() ranges over 1..MaxTime
MaxRemovals == 1     \* entries removed or purged since the cache was last empty
Near == 1            \* capacity arguments lie within Near of 0 and of each width limit
MaxFresh == 2        \* slots beyond capacity the never-reusing reference cache may take
MaxCalls == 8        \* calls made on the cache and the reference cache side by side
MaxRetries == 3      \* Task.retry(n) with n in 0..MaxRetries
MaxBackoff == 2      \* Task.backoff(f) with f in 1..MaxBackoff
MaxTasks == 3        \* a TaskManager is given 1..MaxTasks tasks

Keys == 1..NumKeys

\* Values are opaque to the cache. The values written under key k carry k, so
\* that a value read back under another key shows: n-th value of key k.
Val(k, n) == NumVals * (k - 1) + n
Vals(k) == {Val(k, n) : n \in 1..(IF k <= RichKeys THEN NumVals ELSE 1)}

\* JavaScript `undefined`, as a result ("not found") and as an array hole
Undefined == -1

VARIABLES
  capacityArg, thrown, TypedArray,  \* construction: argument, error, array type
  capacity, ttlOpt,                 \* constructor arguments
  top, bottom, downward, upward,    \* order list
  deletedSize, deleted,             \* free-list
  size, keys, ttls, values, items,  \* slot arena and key index
  now,                              \* performance.now()
  order, latest, setAt, removals,   \* history of the calls made so far
  ref,                              \* a reference cache run beside the cache
  task,                             \* a Task and the progress of its execute()
  manager,                          \* a TaskManager and the progress of its execute()
  callers                           \* callers whose calls are not serialized, statement by statement

cacheVars == <<top, bottom, downward, upward, deletedSize, deleted,
               size, keys, ttls, values, items>>
histVars == <<order, latest, setAt, removals>>
ctorVars == <<capacityArg, thrown, TypedArray>>
vars == <<capacityArg, thrown, TypedArray, capacity, ttlOpt, top, bottom, downward, upward, deletedSize,
          deleted, size, keys, ttls, values, items, now,
          order, latest, setAt, removals, ref, task, manager, callers>>
\* all that belongs to the cache
lruVars == <<capacityArg, thrown, TypedArray, capacity, ttlOpt, top, bottom,
             downward, upward, deletedSize, deleted, size, keys, ttls, values,
             items, now, order, latest, setAt, removals, ref, callers>>

\* ------------------------------------------------------- typed arrays
MAX_8BIT_INTEGER == 256
MAX_16BIT_INTEGER == 65536

\* A JavaScript number: NaN, an infinity, or the finite value
\* (+/-)(hi * 2^16 + lo + half / 2) with 0 <= lo < 2^16 and half in {0, 1}.
\* 2^32 itself does not fit the integers of TLC, hence the two digits.
Finite(neg, hi, lo, half) ==
  [kind |-> "finite", neg |-> neg, hi |-> hi, lo |-> lo, half |-> half]

NaN == [kind |-> "NaN", neg |-> FALSE, hi |-> 0, lo |-> 0, half |-> 0]
Infinity(neg) == [kind |-> "Infinity", neg |-> neg, hi |-> 0, lo |-> 0, half |-> 0]

\* the number of a non-negative integer n
Number(n) ==
  Finite(FALSE, n \div MAX_16BIT_INTEGER, n % MAX_16BIT_INTEGER, 0)

MAX_32BIT_INTEGER == Finite(FALSE, MAX_16BIT_INTEGER, 0, 0)

\* x <= y of JavaScript, for a non-negative integer y; false when x is NaN
Leq(x, y) ==
  \/ x.kind = "Infinity" /\ x.neg
  \/ /\ x.kind = "finite"
     /\ \/ x.neg
        \/ x.hi < y.hi
        \/ x.hi = y.hi /\ (x.lo < y.lo \/ (x.lo = y.lo /\ x.half = 0))

IsInteger(x) == x.kind = "finite" /\ x.half = 0

\* a width picked by the largest index plus two instead of the capacity
getTypedArrayOffByOne(cap) ==
  IF Leq(cap, Number(MAX_8BIT_INTEGER + 1)) THEN 8
  ELSE IF Leq(cap, Number(MAX_16BIT_INTEGER + 1)) THEN 16
  ELSE IF Leq(cap, MAX_32BIT_INTEGER) THEN 32
  ELSE 0

\* element width, in bits, of the typed array picked for a capacity; 0 when
\* no typed array is wide enough and InternalError is thrown
getTypedArray(cap) ==
  IF Leq(cap, Number(MAX_8BIT_INTEGER)) THEN 8
  ELSE IF Leq(cap, Number(MAX_16BIT_INTEGER)) THEN 16
  ELSE IF Leq(cap, MAX_32BIT_INTEGER) THEN 32
  ELSE 0

Pow2(w) == IF w = 8 THEN MAX_8BIT_INTEGER ELSE IF w = 16 THEN MAX_16BIT_INTEGER ELSE 0

\* a store into a Uint<w>Array: undefined becomes 0, numbers wrap modulo 2^w
ToUint(v, cap) ==
  IF v = Undefined THEN 0
  ELSE IF getTypedArray(Number(cap)) = 32 THEN v
  ELSE v % Pow2(getTypedArray(Number(cap)))

\* typed-array element read; out of range (or undefined index) is undefined
Rd(arr, i) == IF i \in DOMAIN arr THEN arr[i] ELSE Undefined

\* typed-array element write; out of range is ignored
Wr(arr, i, v, cap) ==
  IF i \in DOMAIN arr THEN [arr EXCEPT ![i] = ToUint(v, cap)] ELSE arr

\* plain Array (keys, values, ttls): a read of a hole is undefined, a write
\* past the end creates the element
At(arr, i) == IF i \in DOMAIN arr THEN arr[i] ELSE Undefined

Put(arr, i, v) == [j \in (DOMAIN arr) \cup {i} |-> IF j = i THEN v ELSE arr[j]]

\* ------------------------------------------------------- construction
\* new Array(len): a length that is not an integer below 2^32 is a RangeError
ArrayLengthValid(len) ==
  IsInteger(len) /\ ~len.neg /\ len.hi < MAX_16BIT_INTEGER

\* new LRUCache(cap, {ttl: t}): the error thrown ("none" when the instance
\* is returned) and the typed array picked (0 when none was). The typed
\* arrays truncate a fractional length; the plain arrays reject it.
construct(cap, t) ==
  IF Leq(cap, Number(0))
  THEN [thrown |-> "InternalError", TypedArray |-> 0]
  ELSE IF getTypedArray(cap) = 0
  THEN [thrown |-> "InternalError", TypedArray |-> 0]
  ELSE IF ~ArrayLengthValid(cap)
  THEN [thrown |-> "RangeError", TypedArray |-> getTypedArray(cap)]
  ELSE [thrown |-> "none", TypedArray |-> getTypedArray(cap)]

\* ------------------------------------------------------- the object
Cache ==
  [capacity |-> capacity, ttl |-> ttlOpt,
   top |-> top, bottom |-> bottom, downward |-> downward, upward |-> upward,
   deletedSize |-> deletedSize, deleted |-> deleted,
   size |-> size, keys |-> keys, ttls |-> ttls, values |-> values,
   items |-> items]

\* the fields right after `new LRUCache(cap, {ttl: t})`
NewCache(cap, t) ==
  [capacity |-> cap, ttl |-> t,
   top |-> 0, bottom |-> 0,
   downward |-> [i \in 0..(cap - 1) |-> 0],
   upward |-> [i \in 0..(cap - 1) |-> 0],
   deletedSize |-> 0,
   deleted |-> [i \in 0..(cap - 1) |-> 0],
   size |-> 0,
   keys |-> [i \in 0..(cap - 1) |-> Undefined],
   ttls |-> IF t # 0 THEN [i \in 0..(cap - 1) |-> Undefined]
            ELSE [i \in {} |-> Undefined],
   values |-> [i \in 0..(cap - 1) |-> Undefined],
   items |-> [k \in Keys |-> Undefined]]

splayOnTop(c, pointer) ==
  IF c.top = pointer THEN c
  ELSE
    LET oldHead == c.top
        previous == Rd(c.upward, pointer)
        next == Rd(c.downward, pointer)
        c1 == IF c.bottom = pointer
              THEN [c EXCEPT !.bottom = previous]
              ELSE [c EXCEPT !.upward = Wr(c.upward, next, previous, c.capacity)]
        c2 == [c1 EXCEPT !.downward = Wr(c1.downward, previous, next, c.capacity)]
        c3 == [c2 EXCEPT !.upward = Wr(c2.upward, oldHead, pointer, c.capacity)]
    IN [c3 EXCEPT !.top = pointer,
                  !.downward = Wr(c3.downward, pointer, oldHead, c.capacity)]

\* clear() that resets the cursors, the counts and the index only
clearKeepsArrays(c) ==
  [c EXCEPT !.top = 0, !.bottom = 0, !.size = 0, !.deletedSize = 0,
            !.items = [k \in Keys |-> Undefined]]

\* clear() that leaves the free-list as it was
clearKeepsFreeList(c) ==
  [c EXCEPT !.top = 0, !.bottom = 0, !.size = 0,
            !.items = [k \in Keys |-> Undefined],
            !.downward = [i \in DOMAIN c.downward |-> 0],
            !.upward = [i \in DOMAIN c.upward |-> 0],
            !.keys = [i \in 0..(c.capacity - 1) |-> Undefined],
            !.values = [i \in 0..(c.capacity - 1) |-> Undefined]]

clear(c) ==
  [c EXCEPT !.top = 0, !.bottom = 0, !.size = 0, !.deletedSize = 0,
            !.items = [k \in Keys |-> Undefined],
            !.downward = [i \in DOMAIN c.downward |-> 0],
            !.upward = [i \in DOMAIN c.upward |-> 0],
            !.deleted = [i \in DOMAIN c.deleted |-> 0],
            !.keys = [i \in 0..(c.capacity - 1) |-> Undefined],
            !.values = [i \in 0..(c.capacity - 1) |-> Undefined]]

\* detach that does not decrement size
detachKeepsSize(c, key, pointer) ==
  LET deletedValue == At(c.values, pointer)
      c1 == [c EXCEPT !.items = [k \in Keys |-> IF k = key THEN Undefined ELSE c.items[k]]]
  IN IF c1.size = 1 THEN [c |-> clear(c1), ret |-> deletedValue]
     ELSE
       LET previous == Rd(c1.upward, pointer)
           next == Rd(c1.downward, pointer)
           c2 == IF c1.top = pointer THEN [c1 EXCEPT !.top = next]
                 ELSE IF c1.bottom = pointer THEN [c1 EXCEPT !.bottom = previous]
                 ELSE c1
           c3 == [c2 EXCEPT !.downward = Wr(c2.downward, previous, next, c.capacity)]
           c4 == [c3 EXCEPT !.upward = Wr(c3.upward, next, previous, c.capacity)]
       IN [c |-> [c4 EXCEPT !.deleted = Wr(c4.deleted, c4.deletedSize, pointer, c.capacity),
                            !.deletedSize = c4.deletedSize + 1],
           ret |-> deletedValue]

\* detach without `delete this.items[key]`
detachKeepsIndex(c, key, pointer) ==
  LET deletedValue == At(c.values, pointer)
  IN IF c.size = 1 THEN [c |-> [clear(c) EXCEPT !.items = c.items], ret |-> deletedValue]
     ELSE
       LET previous == Rd(c.upward, pointer)
           next == Rd(c.downward, pointer)
           c2 == IF c.top = pointer THEN [c EXCEPT !.top = next]
                 ELSE IF c.bottom = pointer THEN [c EXCEPT !.bottom = previous]
                 ELSE c
           c3 == [c2 EXCEPT !.downward = Wr(c2.downward, previous, next, c.capacity)]
           c4 == [c3 EXCEPT !.upward = Wr(c3.upward, next, previous, c.capacity)]
       IN [c |-> [c4 EXCEPT !.size = c4.size - 1,
                            !.deleted = Wr(c4.deleted, c4.deletedSize, pointer, c.capacity),
                            !.deletedSize = c4.deletedSize + 1],
           ret |-> deletedValue]

\* remove(key) once the key was found at pointer: the object afterwards and
\* the value returned
detach(c, key, pointer) ==
  LET deletedValue == At(c.values, pointer)
      c1 == [c EXCEPT !.items = [k \in Keys |-> IF k = key THEN Undefined ELSE c.items[k]]]
  IN IF c1.size = 1 THEN [c |-> clear(c1), ret |-> deletedValue]
     ELSE
       LET previous == Rd(c1.upward, pointer)
           next == Rd(c1.downward, pointer)
           c2 == IF c1.top = pointer THEN [c1 EXCEPT !.top = next]
                 ELSE IF c1.bottom = pointer THEN [c1 EXCEPT !.bottom = previous]
                 ELSE c1
           c3 == [c2 EXCEPT !.downward = Wr(c2.downward, previous, next, c.capacity)]
           c4 == [c3 EXCEPT !.upward = Wr(c3.upward, next, previous, c.capacity)]
       IN [c |-> [c4 EXCEPT !.size = c4.size - 1,
                            !.deleted = Wr(c4.deleted, c4.deletedSize, pointer, c.capacity),
                            !.deletedSize = c4.deletedSize + 1],
           ret |-> deletedValue]

\* remove(key) without the early return for a key that is not in the index
removeUnguarded(c, key) == detach(c, key, c.items[key])

remove(c, key) ==
  LET pointer == c.items[key] IN
  IF pointer = Undefined THEN [c |-> c, ret |-> Undefined]
  ELSE detach(c, key, pointer)

\* validateTTL(key) that never purges
validateTTLNever(c, key, t) == c

\* validateTTL(key) that takes an expired key out of the index only
validateTTLForgets(c, key, t) ==
  IF c.ttl = 0 THEN c
  ELSE LET pointer == c.items[key] IN
       IF pointer = Undefined THEN c
       ELSE LET ttl == At(c.ttls, pointer) IN
            IF ttl = Undefined \/ ttl = 0 \/ ttl < t
            THEN [c EXCEPT !.items = [k \in Keys |-> IF k = key THEN Undefined ELSE c.items[k]]]
            ELSE c

validateTTL(c, key, t) ==
  IF c.ttl = 0 THEN c
  ELSE LET pointer == c.items[key] IN
       IF pointer = Undefined THEN c
       ELSE LET ttl == At(c.ttls, pointer) IN
            IF ttl = Undefined \/ ttl = 0 \/ ttl < t THEN remove(c, key).c ELSE c

\* a slot for a new key that is always taken from unused capacity
allocateUnbounded(c) ==
  [c |-> [c EXCEPT !.size = c.size + 1], pointer |-> c.size]

\* a slot for a new key that below capacity is always the next index, the
\* free-list being ignored
allocateIgnoresFreeList(c) ==
  IF c.size < c.capacity
  THEN [c |-> [c EXCEPT !.size = c.size + 1], pointer |-> c.size]
  ELSE
    LET pointer == c.bottom
        key == At(c.keys, pointer)
    IN [c |-> [c EXCEPT !.bottom = Rd(c.upward, pointer),
                        !.items = [k \in Keys |-> IF k = key THEN Undefined
                                                            ELSE c.items[k]]],
        pointer |-> pointer]

\* a slot for a new key that, at capacity, is the bottom one while its key
\* stays in the index
allocateKeepsVictim(c) ==
  IF c.size < c.capacity THEN
    IF c.deletedSize > 0
    THEN [c |-> [c EXCEPT !.deletedSize = c.deletedSize - 1, !.size = c.size + 1],
          pointer |-> Rd(c.deleted, c.deletedSize - 1)]
    ELSE [c |-> [c EXCEPT !.size = c.size + 1], pointer |-> c.size]
  ELSE [c |-> [c EXCEPT !.bottom = Rd(c.upward, c.bottom)], pointer |-> c.bottom]

\* the slot for a new key: a reclaimed one, the next unused one or, at
\* capacity, the bottom one, whose key leaves the index
allocate(c) ==
  IF c.size < c.capacity THEN
    IF c.deletedSize > 0
    THEN [c |-> [c EXCEPT !.deletedSize = c.deletedSize - 1, !.size = c.size + 1],
          pointer |-> Rd(c.deleted, c.deletedSize - 1)]
    ELSE [c |-> [c EXCEPT !.size = c.size + 1], pointer |-> c.size]
  ELSE
    LET pointer == c.bottom
        key == At(c.keys, pointer)
    IN [c |-> [c EXCEPT !.bottom = Rd(c.upward, pointer),
                        !.items = [k \in Keys |-> IF k = key THEN Undefined
                                                            ELSE c.items[k]]],
        pointer |-> pointer]

\* set(key, value) that keeps the deadline of a key already in the cache
setKeepsDeadline(c, key, value, t) ==
  LET found == c.items[key] IN
  IF found # Undefined THEN
    LET c1 == splayOnTop(c, found)
    IN [c1 EXCEPT !.values = Put(c1.values, found, value)]
  ELSE
    LET a == allocate(c)
        pointer == a.pointer
        c2 == [a.c EXCEPT !.items[key] = pointer,
                          !.keys = Put(a.c.keys, pointer, key),
                          !.values = Put(a.c.values, pointer, value)]
        c3 == IF c.ttl # 0 THEN [c2 EXCEPT !.ttls = Put(c2.ttls, pointer, t + c.ttl)] ELSE c2
        c4 == [c3 EXCEPT !.downward = Wr(c3.downward, pointer, c3.top, c.capacity)]
        c5 == [c4 EXCEPT !.upward = Wr(c4.upward, c4.top, pointer, c.capacity)]
    IN [c5 EXCEPT !.top = pointer]

\* every key of S whose deadline has elapsed is purged
RECURSIVE purgeExpired(_, _, _)
purgeExpired(c, t, S) ==
  IF S = {} THEN c
  ELSE LET k == CHOOSE k \in S : TRUE
       IN purgeExpired(validateTTL(c, k, t), t, S \ {k})

\* set(key, value) that first purges the expired entries of the other keys
setPurging(c0, key, value, t) ==
  LET c == purgeExpired(c0, t, Keys \ {key}) IN
  LET found == c.items[key] IN
  IF found # Undefined THEN
    LET c1 == splayOnTop(c, found)
        c2 == [c1 EXCEPT !.values = Put(c1.values, found, value)]
    IN IF c.ttl # 0 THEN [c2 EXCEPT !.ttls = Put(c2.ttls, found, t + c.ttl)] ELSE c2
  ELSE
    LET a == allocate(c)
        pointer == a.pointer
        c2 == [a.c EXCEPT !.items[key] = pointer,
                          !.keys = Put(a.c.keys, pointer, key),
                          !.values = Put(a.c.values, pointer, value)]
        c3 == IF c.ttl # 0 THEN [c2 EXCEPT !.ttls = Put(c2.ttls, pointer, t + c.ttl)] ELSE c2
        c4 == [c3 EXCEPT !.downward = Wr(c3.downward, pointer, c3.top, c.capacity)]
        c5 == [c4 EXCEPT !.upward = Wr(c4.upward, c4.top, pointer, c.capacity)]
    IN [c5 EXCEPT !.top = pointer]

set(c, key, value, t) ==
  LET found == c.items[key] IN
  IF found # Undefined THEN
    LET c1 == splayOnTop(c, found)
        c2 == [c1 EXCEPT !.values = Put(c1.values, found, value)]
    IN IF c.ttl # 0 THEN [c2 EXCEPT !.ttls = Put(c2.ttls, found, t + c.ttl)] ELSE c2
  ELSE
    LET a == allocate(c)
        pointer == a.pointer
        c2 == [a.c EXCEPT !.items[key] = pointer,
                          !.keys = Put(a.c.keys, pointer, key),
                          !.values = Put(a.c.values, pointer, value)]
        c3 == IF c.ttl # 0 THEN [c2 EXCEPT !.ttls = Put(c2.ttls, pointer, t + c.ttl)] ELSE c2
        c4 == [c3 EXCEPT !.downward = Wr(c3.downward, pointer, c3.top, c.capacity)]
        c5 == [c4 EXCEPT !.upward = Wr(c4.upward, c4.top, pointer, c.capacity)]
    IN [c5 EXCEPT !.top = pointer]

\* has(key) that does not validate the deadline first
hasUnvalidated(c, key, t) == [c |-> c, ret |-> c.items[key] # Undefined]

has(c, key, t) ==
  LET c1 == validateTTL(c, key, t) IN
  [c |-> c1, ret |-> c1.items[key] # Undefined]

get(c, key, t) ==
  LET c1 == validateTTL(c, key, t)
      pointer == c1.items[key]
  IN IF pointer = Undefined THEN [c |-> c1, ret |-> Undefined]
     ELSE [c |-> splayOnTop(c1, pointer), ret |-> At(c1.values, pointer)]

\* peek(key) that promotes the entry as get does
peekSplaying(c, key, t) == get(c, key, t)

peek(c, key, t) ==
  LET c1 == validateTTL(c, key, t)
      pointer == c1.items[key]
  IN IF pointer = Undefined THEN [c |-> c1, ret |-> Undefined]
     ELSE [c |-> c1, ret |-> At(c1.values, pointer)]

\* ------------------------------------------------------- inherited names
\* `items` is a plain object ({}), so for a key that names a property of
\* Object.prototype ('constructor', 'toString', '__proto__', ...) and was
\* never set, this.items[key] is the inherited function or object and
\* `key in this.items` is true. That object is no slot: as an index of a
\* typed or plain array it names no element (a read is undefined, a write
\* touches no element), it equals neither top nor bottom, and stored into a
\* typed array it becomes 0. Inherited stands for it where a field holds it.
Inherited == -2

\* remove(key) of such a key: the index loses nothing, yet the code goes on
\* as if a slot had been found
removeInherited(c) ==
  IF c.size = 1 THEN [c |-> clear(c), ret |-> Undefined]
  ELSE [c |-> [c EXCEPT !.size = c.size - 1,
                        !.deleted = Wr(c.deleted, c.deletedSize, 0, c.capacity),
                        !.deletedSize = c.deletedSize + 1],
        ret |-> Undefined]

\* validateTTL(key) of such a key: no deadline is stored for it, and a
\* missing deadline counts as an elapsed one
validateTTLInherited(c) ==
  IF c.ttl = 0 THEN c ELSE removeInherited(c).c

\* splayOnTop(pointer) with that object for pointer
splayOnTopInherited(c) ==
  [c EXCEPT !.upward = Wr(c.upward, c.top, 0, c.capacity), !.top = Inherited]

hasInherited(c) == [c |-> validateTTLInherited(c), ret |-> TRUE]

getInherited(c) ==
  [c |-> splayOnTopInherited(validateTTLInherited(c)), ret |-> Undefined]

peekInherited(c) == [c |-> validateTTLInherited(c), ret |-> Undefined]

\* set(key, value) of such a key takes the path of a key already in the
\* cache: no slot is allocated and the index gets no entry
setInherited(c) == splayOnTopInherited(c)

\* no Task and no TaskManager exist
NoTask == [pc |-> "none"]
NoManager == [pc |-> "none"]

\* no reference cache is run
NoRef == [used |-> 0, calls |-> 0]

\* every call is made after the one before it has returned
NoCallers == [pc |-> "none"]

\* ------------------------------------------------------- history
\* keys the key index currently maps
Live(c) == {k \in Keys : c.items[k] # Undefined}

\* k becomes the most recently touched key of a recency sequence
Touch(seq, k) == <<k>> \o SelectSeq(seq, LAMBDA x : x # k)

\* the recency sequence restricted to the keys still in the cache
Restrict(seq, S) == SelectSeq(seq, LAMBDA x : x \in S)

\* the least recently touched key of the cache (Undefined when empty)
LRUKey == IF Len(order) = 0 THEN Undefined ELSE order[Len(order)]

\* has the deadline of the last set(k, ..) passed at time t
Expired(k, t) == ttlOpt # 0 /\ latest[k] # Undefined /\ t > setAt[k] + ttlOpt

Commit(c) ==
  /\ top' = c.top /\ bottom' = c.bottom
  /\ downward' = c.downward /\ upward' = c.upward
  /\ deletedSize' = c.deletedSize /\ deleted' = c.deleted
  /\ size' = c.size /\ keys' = c.keys /\ ttls' = c.ttls
  /\ values' = c.values /\ items' = c.items

\* forget what was recorded for the keys of S
Forget(f, S, z) == [k \in Keys |-> IF k \in S THEN z ELSE f[k]]

\* ------------------------------------------------------- operations
Constructed(cap, t) ==
  /\ capacity = cap
  /\ ttlOpt = t
  /\ top = NewCache(cap, t).top /\ bottom = NewCache(cap, t).bottom
  /\ downward = NewCache(cap, t).downward /\ upward = NewCache(cap, t).upward
  /\ deletedSize = NewCache(cap, t).deletedSize /\ deleted = NewCache(cap, t).deleted
  /\ size = NewCache(cap, t).size /\ keys = NewCache(cap, t).keys
  /\ ttls = NewCache(cap, t).ttls /\ values = NewCache(cap, t).values
  /\ items = NewCache(cap, t).items
  /\ capacityArg = Number(cap)
  /\ thrown = construct(Number(cap), t).thrown
  /\ TypedArray = construct(Number(cap), t).TypedArray
  /\ now = 1
  /\ order = <<>>
  /\ latest = [k \in Keys |-> Undefined]
  /\ setAt = [k \in Keys |-> 0]
  /\ removals = 0

\* constructed without ttl, or with one
Init ==
  /\ ref = NoRef
  /\ task = NoTask
  /\ manager = NoManager
  /\ callers = NoCallers
  /\ \/ \E cap \in 1..MaxCap : Constructed(cap, 0)
     \/ \E cap \in 1..MaxCapTTL, t \in 1..MaxTTL : Constructed(cap, t)

\* what the history records after a call that leaves the object as c:
\* the keys of `forgotten` were removed, cleared, purged as expired or pushed
\* out as the least recently touched key
Recorded(c, newOrder, forgotten) ==
  /\ order' = Restrict(newOrder, Live(c))
  /\ latest' = Forget(latest, forgotten, Undefined)
  /\ setAt' = Forget(setAt, forgotten, 0)

\* a call on key k that leaves the object as c took k out of the cache
Removed(c, k) == items[k] # Undefined /\ c.items[k] = Undefined

\* removals are counted from the last time the cache was empty
Counted(c, k) ==
  /\ Removed(c, k) => removals < MaxRemovals
  /\ removals' = IF c.size = 0 THEN 0
                 ELSE IF Removed(c, k) THEN removals + 1 ELSE removals

Set(k, v) ==
  LET c == set(Cache, k, v, now)
      gone == Live(Cache) \ Live(c)
      victims == {e \in gone : e = LRUKey}
  IN /\ Commit(c)
     /\ order' = Restrict(Touch(order, k), Live(c))
     /\ latest' = [Forget(latest, victims, Undefined) EXCEPT ![k] = v]
     /\ setAt' = [Forget(setAt, victims, 0) EXCEPT ![k] = IF ttlOpt # 0 THEN now ELSE 0]
     /\ UNCHANGED removals
     /\ UNCHANGED <<capacity, ttlOpt, now>>
     /\ UNCHANGED ctorVars
     /\ UNCHANGED <<ref, task, manager, callers>>

Get(k) ==
  LET r == get(Cache, k, now)
      gone == Live(Cache) \ Live(r.c)
  IN /\ Commit(r.c)
     /\ Recorded(r.c, IF k \in Live(r.c) THEN Touch(order, k) ELSE order,
                 {e \in gone : e = k /\ Expired(k, now)})
     /\ Counted(r.c, k)
     /\ UNCHANGED <<capacity, ttlOpt, now>>
     /\ UNCHANGED ctorVars
     /\ UNCHANGED <<ref, task, manager, callers>>

Peek(k) ==
  LET r == peek(Cache, k, now)
      gone == Live(Cache) \ Live(r.c)
  IN /\ Commit(r.c)
     /\ Recorded(r.c, order, {e \in gone : e = k /\ Expired(k, now)})
     /\ Counted(r.c, k)
     /\ UNCHANGED <<capacity, ttlOpt, now>>
     /\ UNCHANGED ctorVars
     /\ UNCHANGED <<ref, task, manager, callers>>

Has(k) ==
  LET r == has(Cache, k, now)
      gone == Live(Cache) \ Live(r.c)
  IN /\ Commit(r.c)
     /\ Recorded(r.c, order, {e \in gone : e = k /\ Expired(k, now)})
     /\ Counted(r.c, k)
     /\ UNCHANGED <<capacity, ttlOpt, now>>
     /\ UNCHANGED ctorVars
     /\ UNCHANGED <<ref, task, manager, callers>>

Remove(k) ==
  LET r == remove(Cache, k)
  IN /\ Commit(r.c)
     /\ Recorded(r.c, order, {k})
     /\ Counted(r.c, k)
     /\ UNCHANGED <<capacity, ttlOpt, now>>
     /\ UNCHANGED ctorVars
     /\ UNCHANGED <<ref, task, manager, callers>>

Clear ==
  LET c == clear(Cache)
  IN /\ Commit(c)
     /\ Recorded(c, order, Keys)
     /\ removals' = 0
     /\ UNCHANGED <<capacity, ttlOpt, now>>
     /\ UNCHANGED ctorVars
     /\ UNCHANGED <<ref, task, manager, callers>>

\* the clock advances between calls; only a cache with ttl reads it
Tick ==
  /\ ttlOpt # 0
  /\ now < MaxTime
  /\ now' = now + 1
  /\ UNCHANGED <<capacity, ttlOpt>>
  /\ UNCHANGED ctorVars
  /\ UNCHANGED <<ref, task, manager, callers>>
  /\ UNCHANGED cacheVars
  /\ UNCHANGED histVars

DoSet == \E k \in Keys : \E v \in Vals(k) : Set(k, v)
DoGet == \E k \in Keys : Get(k)
DoPeek == \E k \in Keys : Peek(k)
DoHas == \E k \in Keys : Has(k)
DoRemove == \E k \in Keys : Remove(k)

Next == DoSet \/ DoGet \/ DoPeek \/ DoHas \/ DoRemove \/ Clear \/ Tick

Spec == Init /\ [][Next]_vars

\* ------------------------------------------------------- constructing
\* the digits of the capacity arguments: around 0 and around each width limit
LoDigits ==
  (0..Near) \cup ((MAX_8BIT_INTEGER - Near)..(MAX_8BIT_INTEGER + Near))
            \cup ((MAX_16BIT_INTEGER - Near)..(MAX_16BIT_INTEGER - 1))
HiDigits ==
  (0..Near) \cup ((MAX_16BIT_INTEGER - Near)..(MAX_16BIT_INTEGER + Near))

CapacityArgs ==
  {Finite(neg, hi, lo, half) :
     neg \in BOOLEAN, hi \in HiDigits, lo \in LoDigits, half \in 0..1}
  \cup {NaN, Infinity(FALSE), Infinity(TRUE)}

\* an array that was declared and not yet assigned
NoArray == [i \in {} |-> 0]

\* `new LRUCache(capacityArg, {ttl: ttlOpt})` is about to run: the fields
\* hold their declared initialisers
InitCtor ==
  /\ capacityArg \in CapacityArgs
  /\ ttlOpt \in 0..MaxTTL
  /\ thrown = "pending"
  /\ TypedArray = 0
  /\ capacity = 0
  /\ top = 0 /\ bottom = 0 /\ deletedSize = 0 /\ size = 0
  /\ downward = NoArray /\ upward = NoArray /\ deleted = NoArray
  /\ keys = NoArray /\ values = NoArray /\ ttls = NoArray
  /\ items = [k \in Keys |-> Undefined]
  /\ now = 1
  /\ order = <<>>
  /\ latest = [k \in Keys |-> Undefined]
  /\ setAt = [k \in Keys |-> 0]
  /\ removals = 0
  /\ ref = NoRef
  /\ task = NoTask
  /\ manager = NoManager
  /\ callers = NoCallers

\* the arrays of a cache of up to MaxCap slots are laid out element by element
LaidOut(cap) == cap.hi = 0 /\ cap.lo <= MaxCap

\* the constructor runs to its return or to its throw
Construct ==
  /\ thrown = "pending"
  /\ thrown' = construct(capacityArg, ttlOpt).thrown
  /\ TypedArray' = construct(capacityArg, ttlOpt).TypedArray
  /\ IF construct(capacityArg, ttlOpt).thrown = "none" /\ LaidOut(capacityArg)
     THEN /\ capacity' = capacityArg.lo
          /\ Commit(NewCache(capacityArg.lo, ttlOpt))
     ELSE /\ UNCHANGED capacity
          /\ UNCHANGED cacheVars
  /\ UNCHANGED <<capacityArg, ttlOpt, now, ref, task, manager, callers>>
  /\ UNCHANGED histVars

NextCtor == Construct

SpecCtor == InitCtor /\ [][NextCtor]_vars

\* ------------------------------------------------------- slot reuse
\* The reference cache runs the code of the cache, except that a new key
\* below capacity is given a slot that was never used (slot `used`) and not
\* the slot on top of the free-list. Its index arrays have MaxFresh slots
\* more than its capacity for that.
Arena(cap) == 0..(cap + MaxFresh - 1)

RefNew(cap) ==
  [c |-> [NewCache(cap, 0) EXCEPT !.downward = [i \in Arena(cap) |-> 0],
                                  !.upward = [i \in Arena(cap) |-> 0],
                                  !.deleted = [i \in Arena(cap) |-> 0]],
   used |-> 0, calls |-> 0]

\* will set(key, ..) on c take a slot for a new key below capacity
Allocates(c, key) == c.items[key] = Undefined /\ c.size < c.capacity

\* an emptied cache is all zeroes again and its first key takes slot 0, the
\* slot bottom designates: every slot of the reference cache is fresh again
Fresh(c, used) == [c |-> c, used |-> IF c.size = 0 THEN 0 ELSE used, calls |-> 0]

\* set(key, value) of the reference cache: the never-used slot is handed to
\* the allocation of set() in place of the reclaimed one
setFresh(r, key, value, t) ==
  IF Allocates(r.c, key)
  THEN [c |-> set([r.c EXCEPT !.deleted = Wr(r.c.deleted, r.c.deletedSize, r.used, r.c.capacity),
                              !.deletedSize = r.c.deletedSize + 1],
                  key, value, t),
        used |-> r.used + 1, calls |-> 0]
  ELSE [c |-> set(r.c, key, value, t), used |-> r.used, calls |-> 0]

\* the reference cache has a never-used slot left for set(key, ..)
CanSetFresh(r, key) == Allocates(r.c, key) => r.used \in Arena(r.c.capacity)

InitReuse ==
  /\ task = NoTask
  /\ manager = NoManager
  /\ callers = NoCallers
  /\ \E cap \in 1..MaxCap : Constructed(cap, 0) /\ ref = RefNew(cap)

\* the same call is made on the cache and on the reference cache, for as
\* long as the two hold the same keys; n entries have been removed so far,
\* and the calls that changed anything are counted
Both(c, r, n) ==
  /\ Live(Cache) = Live(ref.c)
  /\ ref.calls < MaxCalls
  /\ Commit(c)
  /\ ref' = [r EXCEPT !.calls = IF c = Cache /\ r.c = ref.c THEN ref.calls
                                 ELSE ref.calls + 1]
  /\ removals' = n
  /\ UNCHANGED <<capacity, ttlOpt, now>>
  /\ UNCHANGED ctorVars
  /\ UNCHANGED <<order, latest, setAt, task, manager, callers>>

\* the values written do not bear on the slots taken: one value per key
SetBoth(k, v) ==
  /\ CanSetFresh(ref, k)
  /\ Both(set(Cache, k, v, now), setFresh(ref, k, v, now), removals)

GetBoth(k) ==
  Both(get(Cache, k, now).c, Fresh(get(ref.c, k, now).c, ref.used), removals)

PeekBoth(k) ==
  Both(peek(Cache, k, now).c, Fresh(peek(ref.c, k, now).c, ref.used), removals)

HasBoth(k) ==
  Both(has(Cache, k, now).c, Fresh(has(ref.c, k, now).c, ref.used), removals)

\* every removal frees a slot the cache reuses and the reference cache does not
RemoveBoth(k) ==
  /\ items[k] # Undefined => removals < MaxFresh
  /\ Both(remove(Cache, k).c, Fresh(remove(ref.c, k).c, ref.used),
          IF items[k] # Undefined THEN removals + 1 ELSE removals)

NextReuse ==
  \/ \E k \in Keys : SetBoth(k, Val(k, 1))
  \/ \E k \in Keys : GetBoth(k)
  \/ \E k \in Keys : PeekBoth(k)
  \/ \E k \in Keys : HasBoth(k)
  \/ \E k \in Keys : RemoveBoth(k)

SpecReuse == InitReuse /\ [][NextReuse]_vars

\* ------------------------------------------------------- Task
\* What a promise settles with: the value returned or the error thrown by
\* the `of`-th invocation of the task function, or an InternalError.
Pending == [kind |-> "pending", of |-> 0]
Value(n) == [kind |-> "value", of |-> n]
Error(n) == [kind |-> "error", of |-> n]
InternalError == [kind |-> "InternalError", of |-> 0]

\* Task.create(fn).retry(retries).delay(1).backoff(backoffFactor), with or
\* without onRetry(..) and shouldRetry(..)
NewTask(retries, backoffFactor, retryCallback, shouldRetryFn) ==
  [pc |-> "created", retries |-> retries, delayMs |-> 1,
   backoffFactor |-> backoffFactor, retryCallback |-> retryCallback,
   shouldRetryFn |-> shouldRetryFn,
   attempt |-> 0, delay |-> 0, error |-> Pending, result |-> Pending,
   invoked |-> 0, asked |-> <<>>, notified |-> <<>>, settled |-> Pending]

InitTask ==
  /\ Constructed(1, 0)
  /\ ref = NoRef
  /\ manager = NoManager
  /\ callers = NoCallers
  /\ \E retries \in 0..MaxRetries, backoffFactor \in 1..MaxBackoff,
        retryCallback \in BOOLEAN, shouldRetryFn \in BOOLEAN :
       task = NewTask(retries, backoffFactor, retryCallback, shouldRetryFn)

TaskStep(t) ==
  /\ task' = t
  /\ UNCHANGED lruVars
  /\ UNCHANGED manager

\* execute() is called
TaskExecute ==
  /\ task.pc = "created"
  /\ TaskStep([task EXCEPT !.pc = "loop", !.attempt = 1, !.delay = task.delayMs])

\* the loop is entered and the task function is invoked
TaskInvoke ==
  /\ task.pc = "loop"
  /\ task.attempt <= task.retries
  /\ TaskStep([task EXCEPT !.pc = "awaitFn", !.invoked = task.invoked + 1])

\* the loop is left
TaskExhausted ==
  /\ task.pc = "loop"
  /\ ~(task.attempt <= task.retries)
  /\ TaskStep([task EXCEPT !.pc = "rejected", !.settled = InternalError])

TaskFnResolves ==
  /\ task.pc = "awaitFn"
  /\ TaskStep([task EXCEPT !.pc = "resolved", !.result = Value(task.invoked),
                           !.settled = Value(task.invoked)])

\* the attempt that just failed is the last one allowed
LastAttemptNever(t) == FALSE

LastAttempt(t) == t.attempt = t.retries

\* after the retry condition allowed it: onRetry is called, or the timer set
Retrying(t) ==
  IF t.retryCallback
  THEN [t EXCEPT !.pc = "awaitCallback", !.notified = Append(t.notified, t.attempt)]
  ELSE [t EXCEPT !.pc = "awaitTimer"]

TaskFnRejects ==
  /\ task.pc = "awaitFn"
  /\ LET t == [task EXCEPT !.error = Error(task.invoked)] IN
       TaskStep(IF LastAttempt(t)
                THEN [t EXCEPT !.pc = "rejected", !.settled = t.error]
                ELSE IF t.shouldRetryFn
                THEN [t EXCEPT !.pc = "awaitShouldRetry",
                               !.asked = Append(t.asked, t.attempt)]
                ELSE Retrying(t))

TaskShouldRetryAnswers(shouldRetry) ==
  /\ task.pc = "awaitShouldRetry"
  /\ TaskStep(IF ~shouldRetry
              THEN [task EXCEPT !.pc = "rejected", !.settled = task.error]
              ELSE Retrying(task))

TaskCallbackReturns ==
  /\ task.pc = "awaitCallback"
  /\ TaskStep([task EXCEPT !.pc = "awaitTimer"])

TaskTimerFires ==
  /\ task.pc = "awaitTimer"
  /\ TaskStep([task EXCEPT !.pc = "loop",
                           !.delay = task.delay * task.backoffFactor,
                           !.attempt = task.attempt + 1])

NextTask ==
  \/ TaskExecute
  \/ TaskInvoke
  \/ TaskExhausted
  \/ TaskFnResolves
  \/ TaskFnRejects
  \/ \E shouldRetry \in BOOLEAN : TaskShouldRetryAnswers(shouldRetry)
  \/ TaskCallbackReturns
  \/ TaskTimerFires

\* the task function, the callbacks and the timer all settle
SpecTask == InitTask /\ [][NextTask]_vars /\ WF_vars(NextTask)

\* ------------------------------------------------------- TaskManager
\* A task added to the manager: a plain function or a Task, the latter with
\* or without a rollback function. `result` is the Task's this.result.
ITask(isTask, rollbackFn) ==
  [isTask |-> isTask, rollbackFn |-> rollbackFn, result |-> Pending]

ITasks == {ITask(FALSE, FALSE), ITask(TRUE, FALSE), ITask(TRUE, TRUE)}

\* the sequences of 1..n tasks
TaskLists(n) == UNION {[1..m -> ITasks] : m \in 1..n}

\* a value that is falsy in JavaScript (undefined, 0, '', null, false)
Falsy == Value(0)

\* TaskManager.create({rollbackOnError}).addTask(..)...
NewManager(rollbackOnError, tasks) ==
  [pc |-> "created", rollbackOnError |-> rollbackOnError, tasks |-> tasks,
   index |-> 0, rollbackIndex |-> 0, results |-> <<>>, error |-> Pending,
   started |-> <<>>, rolledBack |-> <<>>, settled |-> Pending]

InitManager ==
  /\ Constructed(1, 0)
  /\ ref = NoRef
  /\ task = NoTask
  /\ callers = NoCallers
  /\ \E rollbackOnError \in BOOLEAN, tasks \in TaskLists(MaxTasks) :
       manager = NewManager(rollbackOnError, tasks)

ManagerStep(m) ==
  /\ manager' = m
  /\ UNCHANGED lruVars
  /\ UNCHANGED task

\* the task at a 0-based index
TaskAt(m, index) == m.tasks[index + 1]

\* execute() is called
ManagerExecute ==
  /\ manager.pc = "created"
  /\ ManagerStep([manager EXCEPT !.pc = "loop", !.index = 0])

\* the next task is called: the function, or execute() of the Task
ManagerStartsTask ==
  /\ manager.pc = "loop"
  /\ manager.index < Len(manager.tasks)
  /\ ManagerStep([manager EXCEPT !.pc = "awaitTask",
                                 !.started = Append(manager.started, manager.index)])

\* every task has completed
ManagerReturns ==
  /\ manager.pc = "loop"
  /\ ~(manager.index < Len(manager.tasks))
  /\ ManagerStep([manager EXCEPT !.pc = "resolved", !.settled = Value(Len(manager.results))])

\* the task resolves with a value; a Task keeps it as its result
ManagerTaskResolves(value) ==
  /\ manager.pc = "awaitTask"
  /\ ManagerStep([manager EXCEPT
         !.pc = "loop",
         !.results = Append(manager.results, value),
         !.tasks[manager.index + 1].result =
            IF TaskAt(manager, manager.index).isTask THEN value ELSE Pending,
         !.index = manager.index + 1])

\* the task rejects: rollback(index - 1) is called if asked for, else the
\* error is rethrown
ManagerTaskRejects ==
  /\ manager.pc = "awaitTask"
  /\ LET m == [manager EXCEPT !.error = Error(manager.index + 1)] IN
       ManagerStep(IF m.rollbackOnError
                   THEN [m EXCEPT !.pc = "rollback", !.rollbackIndex = m.index - 1]
                   ELSE [m EXCEPT !.pc = "rejected", !.settled = m.error])

\* Task.executeRollback(): what it throws before it calls the rollback function
executeRollback(t) ==
  IF t.result = Pending \/ t.result = Falsy THEN InternalError
  ELSE IF ~t.rollbackFn THEN InternalError
  ELSE Pending

\* rollback() has gone through every index: execute() rethrows the error
ManagerRollbackEnds ==
  /\ manager.pc = "rollback"
  /\ ~(manager.rollbackIndex >= 0)
  /\ ManagerStep([manager EXCEPT !.pc = "rejected", !.settled = manager.error])

\* a plain function, or a Task without rollback function, is skipped
ManagerRollbackSkips ==
  /\ manager.pc = "rollback"
  /\ manager.rollbackIndex >= 0
  /\ LET t == TaskAt(manager, manager.rollbackIndex) IN ~(t.isTask /\ t.rollbackFn)
  /\ ManagerStep([manager EXCEPT !.rollbackIndex = manager.rollbackIndex - 1])

\* executeRollback() of the Task calls its rollback function
ManagerRollbackCalls ==
  /\ manager.pc = "rollback"
  /\ manager.rollbackIndex >= 0
  /\ LET t == TaskAt(manager, manager.rollbackIndex) IN
       t.isTask /\ t.rollbackFn /\ executeRollback(t) = Pending
  /\ ManagerStep([manager EXCEPT
         !.pc = "awaitRollback",
         !.rolledBack = Append(manager.rolledBack, manager.rollbackIndex)])

\* executeRollback() of the Task throws: rollback() and execute() reject with it
ManagerRollbackThrows ==
  /\ manager.pc = "rollback"
  /\ manager.rollbackIndex >= 0
  /\ LET t == TaskAt(manager, manager.rollbackIndex) IN
       t.isTask /\ t.rollbackFn /\ executeRollback(t) # Pending
  /\ ManagerStep([manager EXCEPT
         !.pc = "rejected",
         !.settled = executeRollback(TaskAt(manager, manager.rollbackIndex))])

\* the rollback function returns
ManagerRollbackReturns ==
  /\ manager.pc = "awaitRollback"
  /\ ManagerStep([manager EXCEPT !.pc = "rollback",
                                 !.rollbackIndex = manager.rollbackIndex - 1])

NextManager ==
  \/ ManagerExecute
  \/ ManagerStartsTask
  \/ ManagerReturns
  \/ \E value \in {Value(manager.index + 1), Falsy} : ManagerTaskResolves(value)
  \/ ManagerTaskRejects
  \/ ManagerRollbackEnds
  \/ ManagerRollbackSkips
  \/ ManagerRollbackCalls
  \/ ManagerRollbackThrows
  \/ ManagerRollbackReturns

SpecManager == InitManager /\ [][NextManager]_vars

\* ------------------------------------------------------- unserialized callers
\* Two logical callers share one cache and nothing serializes their calls:
\* the statements of their remove(key) calls interleave one at a time. The
\* cache is filled beforehand by set calls made one after the other.
Callers == {1, 2}

\* the locals of a caller between two statements of remove()
Idle ==
  [pc |-> "idle", key |-> Undefined, pointer |-> Undefined,
   previous |-> Undefined, next |-> Undefined, cleared |-> FALSE]

InitRace ==
  /\ \E cap \in 1..MaxCap : Constructed(cap, 0)
  /\ ref = NoRef
  /\ task = NoTask
  /\ manager = NoManager
  /\ callers = [p \in Callers |-> Idle]

\* a statement of caller p leaves the object as c and the locals as l
RaceStep(p, c, l) ==
  /\ Commit(c)
  /\ callers' = [callers EXCEPT ![p] = l]
  /\ UNCHANGED <<capacity, ttlOpt, now, ref, task, manager>>
  /\ UNCHANGED ctorVars
  /\ UNCHANGED histVars

\* a whole set(k, v), while no caller has begun
RaceSet(k, v) ==
  /\ \A p \in Callers : callers[p].pc = "idle"
  /\ Commit(set(Cache, k, v, now))
  /\ UNCHANGED <<capacity, ttlOpt, now, ref, task, manager, callers>>
  /\ UNCHANGED ctorVars
  /\ UNCHANGED histVars

\* caller p calls remove(k): const pointer = this.items[key]
RaceLookup(p, k) ==
  /\ callers[p].pc = "idle"
  /\ RaceStep(p, Cache, [callers[p] EXCEPT !.pc = "found", !.key = k,
                                          !.pointer = items[k]])

\* if (typeof pointer === 'undefined') return
RaceFound(p) ==
  /\ callers[p].pc = "found"
  /\ RaceStep(p, Cache,
       [callers[p] EXCEPT !.pc = IF callers[p].pointer = Undefined THEN "done"
                                 ELSE "unindex"])

\* const deletedValue = this.values[pointer]; delete this.items[key]
removeUnindex(c, key) ==
  [c EXCEPT !.items = [k \in Keys |-> IF k = key THEN Undefined ELSE c.items[k]]]

RaceUnindex(p) ==
  /\ callers[p].pc = "unindex"
  /\ RaceStep(p, removeUnindex(Cache, callers[p].key), [callers[p] EXCEPT !.pc = "single"])

\* if (this.size === 1) { this.clear(); return deletedValue }
RaceSingle(p) ==
  /\ callers[p].pc = "single"
  /\ IF size = 1
     THEN RaceStep(p, clear(Cache), [callers[p] EXCEPT !.pc = "done", !.cleared = TRUE])
     ELSE RaceStep(p, Cache, [callers[p] EXCEPT !.pc = "neighbours"])

\* const previous = this.upward[pointer], next = this.downward[pointer]
RaceNeighbours(p) ==
  /\ callers[p].pc = "neighbours"
  /\ RaceStep(p, Cache,
       [callers[p] EXCEPT !.pc = "cursor",
                          !.previous = Rd(upward, callers[p].pointer),
                          !.next = Rd(downward, callers[p].pointer)])

\* if (this.top === pointer) this.top = next;
\* else if (this.bottom === pointer) this.bottom = previous
removeCursor(c, pointer, previous, next) ==
  IF c.top = pointer THEN [c EXCEPT !.top = next]
  ELSE IF c.bottom = pointer THEN [c EXCEPT !.bottom = previous]
  ELSE c

RaceCursor(p) ==
  /\ callers[p].pc = "cursor"
  /\ RaceStep(p, removeCursor(Cache, callers[p].pointer, callers[p].previous,
                              callers[p].next),
              [callers[p] EXCEPT !.pc = "downward"])

\* this.downward[previous] = next
RaceDownward(p) ==
  /\ callers[p].pc = "downward"
  /\ RaceStep(p, [Cache EXCEPT !.downward = Wr(downward, callers[p].previous,
                                               callers[p].next, capacity)],
              [callers[p] EXCEPT !.pc = "upward"])

\* this.upward[next] = previous
RaceUpward(p) ==
  /\ callers[p].pc = "upward"
  /\ RaceStep(p, [Cache EXCEPT !.upward = Wr(upward, callers[p].next,
                                             callers[p].previous, capacity)],
              [callers[p] EXCEPT !.pc = "shrink"])

\* this.size--
RaceShrink(p) ==
  /\ callers[p].pc = "shrink"
  /\ RaceStep(p, [Cache EXCEPT !.size = size - 1], [callers[p] EXCEPT !.pc = "push"])

\* a push that skips a slot the free-list already holds
removePushOnce(c, pointer) ==
  IF \E i \in 0..(c.deletedSize - 1) : Rd(c.deleted, i) = pointer THEN c
  ELSE [c EXCEPT !.deleted = Wr(c.deleted, c.deletedSize, pointer, c.capacity),
                 !.deletedSize = c.deletedSize + 1]

\* this.deleted[this.deletedSize++] = pointer
removePush(c, pointer) ==
  [c EXCEPT !.deleted = Wr(c.deleted, c.deletedSize, pointer, c.capacity),
            !.deletedSize = c.deletedSize + 1]

RacePush(p) ==
  /\ callers[p].pc = "push"
  /\ RaceStep(p, removePush(Cache, callers[p].pointer), [callers[p] EXCEPT !.pc = "done"])

NextRace ==
  \/ \E k \in Keys : RaceSet(k, Val(k, 1))
  \/ \E p \in Callers, k \in Keys : RaceLookup(p, k)
  \/ \E p \in Callers : RaceFound(p)
  \/ \E p \in Callers : RaceUnindex(p)
  \/ \E p \in Callers : RaceSingle(p)
  \/ \E p \in Callers : RaceNeighbours(p)
  \/ \E p \in Callers : RaceCursor(p)
  \/ \E p \in Callers : RaceDownward(p)
  \/ \E p \in Callers : RaceUpward(p)
  \/ \E p \in Callers : RaceShrink(p)
  \/ \E p \in Callers : RacePush(p)

SpecRace == InitRace /\ [][NextRace]_vars

\* ------------------------------------------------------- claims
\* a key that is not in the cache can be set on a full cache
Overflowing(k) == items[k] = Undefined /\ size = capacity

\* C1: set(k, v) of a key that is not in the cache, on a full cache, evicts
\* exactly one key, the least recently touched one (the one whose latest set
\* or successful get is oldest); get and has then miss on it and every other
\* key is still present.
C1_SetEvictsLeastRecentlyTouched ==
  \A k \in Keys : \A v \in Vals(k) :
    Overflowing(k) =>
      LET c == set(Cache, k, v, now) IN
        /\ LRUKey \in Live(Cache)
        /\ Live(c) = (Live(Cache) \ {LRUKey}) \cup {k}
        /\ get(c, LRUKey, now).ret = Undefined
        /\ ~has(c, LRUKey, now).ret

\* C2: get(k) returns the value of the most recent set(k, v), provided k has
\* not since been removed, evicted as the least recently used key, cleared or
\* expired.
C2_GetReturnsLatestSet ==
  \A k \in Keys :
    (latest[k] # Undefined /\ ~Expired(k, now)) =>
      get(Cache, k, now).ret = latest[k]

\* C3: size <= capacity in every reachable state.
C3_SizeWithinCapacity == size <= capacity

\* a set has just filled the cache to its capacity
C3_Witness == size = capacity /\ Len(order) = capacity /\ capacity > 1

\* the key touched least recently but one
NextLRUKey == IF Len(order) < 2 THEN Undefined ELSE order[Len(order) - 1]

\* C4: on a full cache a successful get of the least recently used key k
\* makes k the most recently used entry, so that the next set of a new key
\* evicts the next least recently used key instead of k.
C4_GetPromotes ==
  \A k \in Keys :
    (k = LRUKey /\ size = capacity /\ Len(order) >= 2
       /\ get(Cache, k, now).ret # Undefined) =>
      LET c == get(Cache, k, now).c IN
        /\ c.top = items[k]
        /\ \A j \in Keys : \A v \in Vals(j) :
             items[j] = Undefined =>
               Live(set(c, j, v, now)) = (Live(Cache) \ {NextLRUKey}) \cup {j}

C6_RemoveReturnsValue ==
  \A k \in Live(Cache) :
    LET r == remove(Cache, k) IN
      /\ r.ret = latest[k]
      /\ get(r.c, k, now).ret = Undefined
      /\ ~has(r.c, k, now).ret
      /\ peek(r.c, k, now).ret = Undefined

\* a key with its second value, among other keys, is removed
C6_Witness ==
  /\ size >= 2
  /\ \E k \in Live(Cache) :
       /\ latest[k] = Val(k, 2)
       /\ remove(Cache, k).ret = Val(k, 2)
       /\ ~has(remove(Cache, k).c, k, now).ret

Masked(c) ==
  [c EXCEPT !.ttls = [i \in DOMAIN c.ttls |->
                        IF \E k \in Keys : c.items[k] = i THEN c.ttls[i]
                        ELSE Undefined]]

\* two calls returned the same and left the same object, stale deadlines aside
Agree(r1, r2) == r1.ret = r2.ret /\ Masked(r1.c) = Masked(r2.c)

\* no call reads the deadline of a slot no key maps to: every operation does
\* on the object what it does on the object with those deadlines blanked
StaleDeadlinesUnread ==
  /\ Masked(clear(Cache)) = Masked(clear(Masked(Cache)))
  /\ \A k \in Keys :
       /\ Agree(get(Cache, k, now), get(Masked(Cache), k, now))
       /\ Agree(peek(Cache, k, now), peek(Masked(Cache), k, now))
       /\ Agree(has(Cache, k, now), has(Masked(Cache), k, now))
       /\ Agree(remove(Cache, k), remove(Masked(Cache), k))
       /\ \A v \in Vals(k) :
            Masked(set(Cache, k, v, now)) = Masked(set(Masked(Cache), k, v, now))

\* C8: after clear() has and get miss on every key, size is 0, and the
\* cache behaves as a freshly constructed one of the same capacity and ttl:
\* every field but the deadlines of unmapped slots has its value after
\* construction, and no operation reads such a deadline.
C8_ClearIsFresh ==
  LET c == clear(Cache) IN
    /\ c.size = 0
    /\ \A k \in Keys : ~has(c, k, now).ret /\ get(c, k, now).ret = Undefined
    /\ Masked(c) = NewCache(capacity, ttlOpt)
    /\ StaleDeadlinesUnread

\* a cache with ttl, a reclaimed slot and deadlines written is cleared
C8_Witness ==
  /\ ttlOpt # 0 /\ size >= 1 /\ deletedSize >= 1
  /\ clear(Cache).ttls # NewCache(capacity, ttlOpt).ttls
  /\ Masked(clear(Cache)) = NewCache(capacity, ttlOpt)
  /\ \A k \in Live(Cache) : ~has(clear(Cache), k, now).ret

\* C9: with ttl = T > 0, after set(k, v) and no further set of k, once the
\* clock has advanced by more than T get(k) returns not found and a has(k)
\* after it returns false; up to the deadline get(k) returns v while k is in
\* the cache.
C9_ExpiryOnGet ==
  ttlOpt # 0 =>
    \A k \in Keys :
      latest[k] # Undefined =>
        LET r == get(Cache, k, now) IN
          IF now > setAt[k] + ttlOpt
          THEN r.ret = Undefined /\ ~has(r.c, k, now).ret
          ELSE k \in Live(Cache) => r.ret = latest[k]

\* a key still in the index is read after its deadline, beside a key that
\* is read before its own
C9_Witness ==
  /\ ttlOpt # 0
  /\ \E k \in Live(Cache) :
       /\ now > setAt[k] + ttlOpt
       /\ get(Cache, k, now).ret = Undefined
       /\ ~has(get(Cache, k, now).c, k, now).ret
  /\ \E j \in Live(Cache) :
       /\ now <= setAt[j] + ttlOpt
       /\ get(Cache, j, now).ret = latest[j]

\* the capacities the constructor is to accept: the positive integers up to
\* the largest slot count a 32-bit typed array is picked for
ValidCapacity(cap) ==
  ~Leq(cap, Number(0)) /\ IsInteger(cap) /\ Leq(cap, MAX_32BIT_INTEGER)

\* C10: construction throws InternalError for every capacity that is not
\* positive, not an integer or beyond the 32-bit slot count, and returns an
\* instance for every positive integer capacity within it.
C10_ConstructorRejectsInvalidCapacity ==
  thrown # "pending" =>
    IF ValidCapacity(capacityArg) THEN thrown = "none"
    ELSE thrown = "InternalError"

\* every value a caller writes
AllVals == UNION {Vals(k) : k \in Keys}

Slots(c) == 0..(c.capacity - 1)

\* the object is one a method can run on without reaching outside its arrays
WellFormed(c) ==
  /\ c.size \in 0..c.capacity /\ c.deletedSize \in 0..c.capacity
  /\ c.top \in Slots(c) /\ c.bottom \in Slots(c)
  /\ DOMAIN c.downward = Slots(c) /\ DOMAIN c.upward = Slots(c)
  /\ DOMAIN c.deleted = Slots(c)
  /\ DOMAIN c.keys = Slots(c) /\ DOMAIN c.values = Slots(c)
  /\ DOMAIN c.ttls = (IF c.ttl # 0 THEN Slots(c) ELSE {})
  /\ \A i \in Slots(c) :
       c.downward[i] \in Slots(c) /\ c.upward[i] \in Slots(c) /\ c.deleted[i] \in Slots(c)
  /\ \A k \in Keys : c.items[k] \in Slots(c) \cup {Undefined}

C12_SlotReuseUnobservable ==
  \A k \in Keys :
    /\ get(Cache, k, now).ret = get(ref.c, k, now).ret
    /\ peek(Cache, k, now).ret = peek(ref.c, k, now).ret
    /\ has(Cache, k, now).ret = has(ref.c, k, now).ret
    /\ remove(Cache, k).ret = remove(ref.c, k).ret
    /\ \A v \in Vals(k) :
         CanSetFresh(ref, k) =>
           Live(set(Cache, k, v, now)) = Live(setFresh(ref, k, v, now).c)

\* C13: with ttl enabled the deadline of an entry is the time of the last
\* set of its key plus ttl: every set, of a new key or of a key already in
\* the cache, writes now + ttl; get, peek and has write no deadline; and an
\* entry is found exactly until that deadline has passed.
C13_DeadlineFromLastSet ==
  ttlOpt # 0 =>
    \A k \in Keys :
      /\ \A v \in Vals(k) :
           LET c == set(Cache, k, v, now)
           IN At(c.ttls, c.items[k]) = now + ttlOpt
      /\ get(Cache, k, now).c.ttls = ttls
      /\ peek(Cache, k, now).c.ttls = ttls
      /\ has(Cache, k, now).c.ttls = ttls
      /\ k \in Live(Cache) =>
           /\ At(ttls, items[k]) = setAt[k] + ttlOpt
           /\ has(Cache, k, now).ret = (now <= setAt[k] + ttlOpt)
           /\ (get(Cache, k, now).ret # Undefined) = (now <= setAt[k] + ttlOpt)

\* a key set a second time, later than the first, is found at a time at
\* which the deadline of its first set has passed
C13_Witness ==
  /\ ttlOpt # 0
  /\ \E k \in Live(Cache) :
       /\ latest[k] = Val(k, 2)
       /\ setAt[k] > 1
       /\ now > 1 + ttlOpt
       /\ At(ttls, items[k]) = setAt[k] + ttlOpt
       /\ get(Cache, k, now).ret = Val(k, 2)

TaskSettled == task.pc \in {"resolved", "rejected"}

\* the attempts 1..n, in order
Attempts(n) == [i \in 1..n |-> i]

\* what execute() has done so far is what the claim allows
TaskWithinClaim ==
  /\ task.invoked <= task.retries
  /\ task.pc = "resolved" => task.settled = Value(task.invoked)
  /\ (task.pc = "rejected" /\ task.invoked = task.retries /\ task.retries >= 1) =>
       task.settled = Error(task.retries)
  /\ task.retryCallback =>
       \/ task.notified = Attempts(task.invoked)
       \/ task.notified = Attempts(task.invoked - 1)
  /\ (task.retryCallback /\ task.pc \in {"loop", "awaitFn"}) =>
       task.notified = Attempts(task.attempt - 1)
  /\ ~task.retryCallback => task.notified = <<>>

\* C14: Task.execute() invokes the task function at most `retries` times
\* and settles: it resolves with the result of the first invocation that
\* succeeds; when all `retries` invocations fail it rejects with the error
\* of the last one; and onRetry is called once between two consecutive
\* attempts, with the number of the attempt that failed.
C14_ExecuteRetriesAndSettles == []TaskWithinClaim /\ <>TaskSettled

\* the last allowed attempt has failed, after onRetry was called and the
\* delay was raised for each earlier one
C14_Witness ==
  /\ task.pc = "rejected" /\ task.retries = MaxRetries
  /\ task.invoked = MaxRetries /\ task.settled = Error(MaxRetries)
  /\ task.notified = Attempts(MaxRetries - 1)
  /\ task.delay > task.delayMs

\* the 0-based indices below i of the Tasks that have a rollback function,
\* from i - 1 down to 0
RECURSIVE RollbackOrder(_, _)
RollbackOrder(m, i) ==
  IF i = 0 THEN <<>>
  ELSE IF TaskAt(m, i - 1).isTask /\ TaskAt(m, i - 1).rollbackFn
       THEN <<i - 1>> \o RollbackOrder(m, i - 1)
       ELSE RollbackOrder(m, i - 1)

\* C15: TaskManager.execute() starts the tasks one at a time in the order
\* they were added; when task i fails and rollbackOnError is set, no later
\* task is started, the rollback function of every completed Task that has
\* one is called exactly once, from i - 1 down to 0, and execute() rejects
\* with the error of task i.
C15_SequentialWithRollback ==
  /\ manager.started = [j \in 1..Len(manager.started) |-> j - 1]
  /\ (manager.pc = "rejected" /\ manager.rollbackOnError) =>
       /\ Len(manager.started) = manager.index + 1
       /\ manager.rolledBack = RollbackOrder(manager, manager.index)
       /\ manager.settled = Error(manager.index + 1)

\* the n slots visited from a slot by following a pointer array
RECURSIVE Walk(_, _, _)
Walk(pointers, from, n) ==
  IF n = 0 THEN <<>> ELSE <<from>> \o Walk(pointers, pointers[from], n - 1)

\* the order list read from top by downward, and from bottom by upward
DownChain(c) == Walk(c.downward, c.top, c.size)
UpChain(c) == Walk(c.upward, c.bottom, c.size)

Reverse(q) == [i \in 1..Len(q) |-> q[Len(q) + 1 - i]]
Distinct(q) == \A i, j \in 1..Len(q) : q[i] = q[j] => i = j

\* C16: in every reachable state the order list is a single chain of
\* exactly size distinct slots: following downward from top visits size
\* distinct slots and ends at bottom, and following upward from bottom visits
\* the same slots in reverse order and ends at top.
C16_OrderListIsSingleChain ==
  size > 0 =>
    /\ Distinct(DownChain(Cache))
    /\ DownChain(Cache)[size] = bottom
    /\ UpChain(Cache) = Reverse(DownChain(Cache))
    /\ UpChain(Cache)[size] = top

\* the keys of R in the order in which n sets of keys that are not in the
\* cache make them leave it
RECURSIVE Evictions(_, _, _)
Evictions(c, R, n) ==
  IF n = 0 \/ R = {} THEN <<>>
  ELSE LET j == CHOOSE j \in Keys : c.items[j] = Undefined
           c2 == set(c, j, Val(j, 1), now)
           gone == {r \in R : c2.items[r] = Undefined}
       IN  (IF gone = {} THEN <<>> ELSE <<gone>>) \o Evictions(c2, R \ gone, n - 1)

\* C17: remove(k) preserves the relative recency order of the other live
\* keys, whether k is at the top, at the bottom or in the middle: the
\* overflowing sets that follow evict the remaining keys in the order in
\* which they would have been evicted without the remove.
C17_RemoveKeepsOrderOfOthers ==
  \A k \in Live(Cache) :
    LET R == Live(Cache) \ {k} IN
      Evictions(remove(Cache, k).c, R, 2 * capacity) = Evictions(Cache, R, 2 * capacity)

\* the free-list as a sequence, the slots the key index refers to, and the
\* slots of the order list
FreeList(c) == [i \in 1..c.deletedSize |-> c.deleted[i - 1]]
Indexed(c) == {c.items[k] : k \in Live(c)}
Listed(c) == {DownChain(c)[i] : i \in 1..c.size} \cup {UpChain(c)[i] : i \in 1..c.size}
Range(q) == {q[i] : i \in 1..Len(q)}

\* C18: in every reachable state each allocated slot is in exactly one of
\* the order list and the free-list: no slot is twice on the free-list, no
\* slot of the free-list is referred to by the key index or reachable in
\* the order list, and top and bottom designate live slots when size > 0.
C18_SlotInListOrFreeList ==
  /\ Distinct(FreeList(Cache))
  /\ Range(FreeList(Cache)) \cap Indexed(Cache) = {}
  /\ Range(FreeList(Cache)) \cap Listed(Cache) = {}
  /\ size > 0 => top \in Indexed(Cache) /\ bottom \in Indexed(Cache)

\* a sequence without the occurrences of x
Without(q, x) == SelectSeq(q, LAMBDA y : y # x)

\* set(k, v) of a key in the cache stores v, and the deadline, in the slot of
\* k and makes it the top, the last of the keys to be evicted
SetUpdates(c, k, v) ==
  /\ c.values[items[k]] = v
  /\ ttlOpt # 0 => c.ttls[items[k]] = now + ttlOpt
  /\ c.top = items[k]
  /\ get(c, k, now).ret = v
  /\ Evictions(c, Live(Cache), 2 * capacity)
       = Evictions(c, Live(Cache) \ {k}, 2 * capacity) \o <<{k}>>

\* ... and leaves size, the free-list, the key index and the slots of the
\* other keys as they were
SetFrame(c, k) ==
  /\ c.size = size /\ c.deletedSize = deletedSize /\ c.deleted = deleted
  /\ c.items = items /\ c.keys = keys
  /\ \A i \in Slots(Cache) \ {items[k]} :
       c.values[i] = values[i] /\ (ttlOpt # 0 => c.ttls[i] = ttls[i])

\* ... and the other keys in their order, in the list and in the evictions
\* that follow
SetKeepsOrderOfOthers(c, k) ==
  /\ Without(DownChain(c), items[k]) = Without(DownChain(Cache), items[k])
  /\ Evictions(c, Live(Cache) \ {k}, 2 * capacity)
       = Evictions(Cache, Live(Cache) \ {k}, 2 * capacity)

\* C19: set(k, v) of a key already in the cache updates the value of k (and
\* its deadline when a ttl is set) and makes k the most recently used entry,
\* with no other structural change: size, the free-list, the set of live
\* keys, the value of every other key and the relative recency order of the
\* other keys are as before.
C19_SetExistingKeyFrame ==
  \A k \in Live(Cache) : \A v \in Vals(k) :
    LET c == set(Cache, k, v, now) IN
      SetUpdates(c, k, v) /\ SetFrame(c, k) /\ SetKeepsOrderOfOthers(c, k)

\* C20: when set inserts a new key at capacity, exactly one key, the one
\* stored in the bottom slot, leaves the key index; the new key takes that
\* very slot and becomes the top; size and the free-list are unchanged, and
\* the index holds as many keys as before.
C20_SetAtCapacityTransfersBottomSlot ==
  \A k \in Keys : \A v \in Vals(k) :
    Overflowing(k) =>
      LET c == set(Cache, k, v, now)
          victim == keys[bottom]
      IN /\ victim \in Live(Cache) /\ items[victim] = bottom
         /\ Live(Cache) \ Live(c) = {victim}
         /\ Live(c) \ Live(Cache) = {k}
         /\ \A j \in Live(Cache) \ {victim} : c.items[j] = items[j]
         /\ c.items[k] = bottom /\ c.keys[bottom] = k /\ c.values[bottom] = v
         /\ c.top = bottom
         /\ c.size = size /\ c.deletedSize = deletedSize /\ c.deleted = deleted
         /\ Cardinality(Live(c)) = Cardinality(Live(Cache))

\* a full cache of three keys, one of them in a slot reclaimed by a remove,
\* takes a new key into its bottom slot
C20_Witness ==
  /\ capacity = 3 /\ size = capacity /\ removals > 0 /\ bottom # 0
  /\ \E k \in Keys :
       /\ Overflowing(k)
       /\ LET c == set(Cache, k, Val(k, 2), now) IN
            /\ c.items[k] = bottom /\ c.top = bottom
            /\ c.items[keys[bottom]] = Undefined
            /\ Cardinality(Live(c)) = 3

\* the deadline stored for key k has elapsed
Elapsed(k) ==
  /\ ttlOpt # 0 /\ items[k] # Undefined
  /\ At(ttls, items[k]) = Undefined \/ At(ttls, items[k]) < now

\* the entry of key j is in c as it is in the cache
SameEntry(c, j) ==
  /\ c.items[j] = items[j]
  /\ At(c.keys, items[j]) = At(keys, items[j])
  /\ At(c.values, items[j]) = At(values, items[j])
  /\ At(c.ttls, items[j]) = At(ttls, items[j])

\* C21: with a ttl, the first get, peek or has of a key whose deadline has
\* elapsed reports not found and leaves the object exactly as remove(k)
\* would: size decremented, the slot on the free-list, the key out of the
\* index. has(k) agrees with a get(k) that follows it at once, and the
\* entries of the other keys are as before.
C21_LazyPurge ==
  \A k \in Keys :
    /\ has(Cache, k, now).ret = (get(has(Cache, k, now).c, k, now).ret # Undefined)
    /\ Elapsed(k) =>
         LET r == remove(Cache, k).c IN
           /\ get(Cache, k, now) = [c |-> r, ret |-> Undefined]
           /\ peek(Cache, k, now) = [c |-> r, ret |-> Undefined]
           /\ has(Cache, k, now) = [c |-> r, ret |-> FALSE]
           /\ r.items[k] = Undefined
           /\ size > 1 =>
                /\ r.size = size - 1 /\ r.deletedSize = deletedSize + 1
                /\ At(r.deleted, deletedSize) = items[k]
           /\ size = 1 => r.size = 0
           /\ \A j \in Live(Cache) \ {k} : SameEntry(r, j)

\* of two entries one has expired and the other has not; has of the first
\* purges it and leaves the second
C21_Witness ==
  /\ size = 2
  /\ \E k, j \in Live(Cache) :
       /\ Elapsed(k) /\ ~Elapsed(j)
       /\ ~has(Cache, k, now).ret
       /\ has(Cache, k, now).c.size = 1
       /\ has(has(Cache, k, now).c, j, now).ret

MaxIndex(cap) ==
  IF cap.lo > 0 THEN Finite(FALSE, cap.hi, cap.lo - 1, 0)
  ELSE Finite(FALSE, cap.hi - 1, MAX_16BIT_INTEGER - 1, 0)

\* x < 2^w
FitsWidth(x, w) ==
  IF w = 8 THEN x.hi = 0 /\ x.lo < MAX_8BIT_INTEGER
  ELSE IF w = 16 THEN x.hi = 0
  ELSE w = 32 /\ x.hi < MAX_16BIT_INTEGER

\* a capacity the integers of TLC hold
Small(cap) == cap.hi <= 1

\* C24: for every valid capacity the constructor picks the narrowest of
\* the 8, 16 and 32 bit unsigned arrays, 8 bit for a capacity up to 256,
\* 16 bit up to 65,536 and 32 bit above, and every slot index 0..capacity-1
\* stored in the upward, downward or free-list array is representable in
\* that width: a store keeps it as it is.
C24_NarrowestWidthHoldsEveryIndex ==
  thrown = "none" =>
    /\ TypedArray = (IF Leq(capacityArg, Number(256)) THEN 8
                     ELSE IF Leq(capacityArg, Number(65536)) THEN 16 ELSE 32)
    /\ FitsWidth(MaxIndex(capacityArg), TypedArray)
    /\ TypedArray = 16 => ~FitsWidth(MaxIndex(capacityArg), 8)
    /\ TypedArray = 32 => ~FitsWidth(MaxIndex(capacityArg), 16)
    /\ Small(capacityArg) =>
         LET n == capacityArg.hi * MAX_16BIT_INTEGER + capacityArg.lo IN
           \A v \in {0, n \div 2, n - 1} : ToUint(v, n) = v

\* a cache of 257 slots is constructed: its index 256 needs the 16 bit array
C24_Witness ==
  /\ thrown = "none"
  /\ capacityArg = Number(MAX_8BIT_INTEGER + 1)
  /\ TypedArray = 16
  /\ ToUint(MAX_8BIT_INTEGER, MAX_8BIT_INTEGER + 1) = MAX_8BIT_INTEGER

\* callers p and q both found key k in the index and ran their remove(k)
\* to its last statement
BothRemoved(p, q) ==
  /\ p # q
  /\ callers[p].pc = "done" /\ callers[q].pc = "done"
  /\ callers[p].key = callers[q].key
  /\ callers[p].pointer # Undefined /\ callers[q].pointer # Undefined
  /\ ~callers[p].cleared /\ ~callers[q].cleared

C26_RollbackAfterAnyResult ==
  \A i \in 1..Len(manager.tasks) :
    LET t == manager.tasks[i] IN
      t.isTask =>
        /\ (t.result # Pending /\ t.rollbackFn) => executeRollback(t) = Pending
        /\ executeRollback(t) = InternalError => (t.result = Pending \/ ~t.rollbackFn)

C29_RemoveHidesExpired ==
  \A k \in Keys :
    Elapsed(k) =>
      /\ get(Cache, k, now).ret = Undefined
      /\ peek(Cache, k, now).ret = Undefined
      /\ remove(Cache, k).ret = Undefined

\* C30: for every string key that was never set, the names a plain object
\* inherits ('constructor', 'toString', '__proto__') included, has returns
\* false, get, peek and remove return not found, set stores the key as it
\* stores any other (in a slot of the arena, which becomes the top), and no
\* lookup changes size, the order list or the free-list.
C30_UnsetKeysMiss ==
  /\ \A k \in Keys \ Live(Cache) :
       /\ has(Cache, k, now) = [c |-> Cache, ret |-> FALSE]
       /\ get(Cache, k, now) = [c |-> Cache, ret |-> Undefined]
       /\ peek(Cache, k, now) = [c |-> Cache, ret |-> Undefined]
       /\ remove(Cache, k).ret = Undefined
       /\ set(Cache, k, Val(k, 1), now).top \in Slots(set(Cache, k, Val(k, 1), now))
  /\ hasInherited(Cache) = [c |-> Cache, ret |-> FALSE]
  /\ getInherited(Cache) = [c |-> Cache, ret |-> Undefined]
  /\ peekInherited(Cache) = [c |-> Cache, ret |-> Undefined]
  /\ removeInherited(Cache).ret = Undefined
  /\ setInherited(Cache).top \in 0..(capacity - 1)

====
